---- MODULE Spec2Model ----
(***************************************************************************)
(* Model of hyperliquid-whale-agent:                                       *)
(*   - POST /api/whale in its two versions (src/app/api/whale/route.ts):   *)
(*     the remote-only handler and the two-channel handler that tries the  *)
(*     local mailbox first and falls back to ASI:ONE;                      *)
(*   - ASIOneClient.sendMessage and the configuration predicates of        *)
(*     src/lib/asi-one.ts (remote-only) and of its later version with the  *)
(*     local mailbox (src/lib/constants.ts, lines 35-361);                 *)
(*   - POST /api/mailbox and its LocalMailbox                              *)
(*     (src/app/api/mailbox/route.ts);                                     *)
(*   - the ChatInterface component (its state, sendMessage,                *)
(*     checkConnectionStatus, discoverAgents);                             *)
(*   - HyperliquidClient.enrichWallet with parsePositions and parseFills;  *)
(*   - whale detection: the thresholds and TOKEN_INFO of                   *)
(*     src/lib/constants.ts, and detect as section 4.1 of the              *)
(*     specification describes it (its code is not in the sources).        *)
(* One action is the code a handler runs between two awaits.  Each         *)
(* component has its own specification (Spec, SendMessageSpec,             *)
(* MailboxSpec, UISpec, EnrichSpec and EnrichRepeatSpec, DetectSpec), in   *)
(* which the other components stay idle.                                   *)
(***************************************************************************)
EXTENDS Integers, Sequences, FiniteSets, TLC

\* ------------------------------------------------------------------ bounds

\* Number of POST requests a behaviour issues (they may overlap in time).
MaxRequests == 2

\* Number of POSTs a behaviour sends to the mailbox endpoint, and the last
\* reading of its clock.
MaxMailboxPosts == 3
MaxMailboxClock == 2

\* Number of messages a chat session sends, and the last reading of the
\* browser's clock.
MaxUISends == 2
MaxUIClock == 4

\* Number of entries the data source holds for a wallet (positions, fills),
\* and the last reading of the clock of enrichWallet.
MaxPositions == 3
MaxFills == 1
MaxEnrichClock == 2

\* Number of deposits the bridge contract has received.
MaxDeposits == 3

\* ------------------------------------------------------------ value domains

None == "none"

\* JavaScript truthiness of an optional string.
Truthy(s) == s # None /\ s # ""

LocalText == "local reply text"
AsiContent == "choices[0].message.content"
AsiMessage == "data.message"
NoResponseReceived == "No response received"

\* The two versions of the route (and of the client library it imports).
Deployments == {"remote-only", "two-channel"}

\* What the local mailbox does with POST {url}/send.
\*   ok            2xx, body {success: true, response: <text>}
\*   bad_body      2xx, JSON body without success/response
\*   http_error    non-2xx status
\*   network_error fetch rejects
\*   hang          the connection is accepted and the reply never completes
LocalBehaviours == {"ok", "bad_body", "http_error", "network_error", "hang"}

\* What the ASI:ONE gateway does with POST {baseUrl}/v1/chat/completions.
\*   ok            2xx, body with choices[0].message.content
\*   message_only  2xx, body without first-choice content but with .message
\*   no_content    2xx, JSON body with neither
\*   invalid_json  2xx, body that response.json() rejects
\*   hang          the connection is accepted and the reply never completes
RemoteBehaviours ==
    {"ok", "message_only", "no_content", "invalid_json", "http_error",
     "network_error", "hang"}

\* Request bodies.  json = FALSE is a body no field can be read from: text
\* that request.json() rejects, or the JSON value null, which request.json()
\* returns and the destructuring assignment rejects.
\* message is <<typeof, value>>; preferLocal is "absent", "true" or "false".
Body(j, m, p) == [json |-> j, message |-> m, preferLocal |-> p]

MsgAbsent == <<"undefined", "">>
MsgEmpty == <<"string", "">>
MsgNumber == <<"number", "42">>
MsgStatus == <<"string", "status">>
JsonNull == <<"object", "null">>

Bodies ==
    { Body(FALSE, MsgAbsent, "absent"),
      Body(FALSE, JsonNull, "absent"),
      Body(TRUE, MsgAbsent, "absent"),
      Body(TRUE, MsgEmpty, "true"),
      Body(TRUE, MsgNumber, "false"),
      Body(TRUE, MsgStatus, "absent"),
      Body(TRUE, MsgStatus, "true"),
      Body(TRUE, MsgStatus, "false") }

NoBody == Body(FALSE, MsgAbsent, "none")

Requests == 1..MaxRequests

VARIABLES
    deployment,    \* which version of the route and client library is deployed
    env,           \* process.env: which variables are set (non-empty)
    localHealth,   \* availability snapshot of the local mailbox
    asiHealth,     \* availability snapshot of the ASI:ONE gateway
    req,           \* per request: position in POST, inputs, fetches, response
    sendMessageCall,  \* a direct call of sendMessage: inputs, fetches, result
    mailbox,       \* /api/mailbox: the module-level LocalMailbox instance
    mailboxIds,    \* /api/mailbox: number of message ids issued so far
    mailboxClock,  \* /api/mailbox: last reading of Date.now()
    mailboxLog,    \* /api/mailbox: the POSTs handled so far and their replies
    messages,          \* ChatInterface: useState, the history
    input,             \* ChatInterface: useState, the text box
    isLoading,         \* ChatInterface: useState
    uiPreferLocal,       \* ChatInterface: useState, the Prefer Local checkbox
    connectionStatus,  \* ChatInterface: useState
    availableAgents,   \* ChatInterface: useState
    uiPending,         \* ChatInterface: async calls started and not yet settled
    uiClock,           \* ChatInterface: last reading of Date.now()
    uiMailboxHealth,   \* availability snapshot of /api/mailbox seen by the page
    uiStatusHealth,    \* availability snapshot of GET /api/whale seen by the page
    sends,             \* ChatInterface: per send, what it saw and what it tried
    clearinghouseState,  \* Hyperliquid: assetPositions of the wallet
    userFills,           \* Hyperliquid: fills of the wallet, most recent first
    stateHealth,         \* availability snapshot of the clearinghouseState request
    fillsHealth,         \* availability snapshot of the userFills request
    enrich,              \* enrichWallet: position, the two requests, the result
    bridgeDeposits,      \* detection: decoded deposits at the bridge contract
    detection            \* detect: position, the inputs, the result

chatVars == <<deployment, env, localHealth, asiHealth, req, sendMessageCall>>
mailboxVars == <<mailbox, mailboxIds, mailboxClock, mailboxLog>>
uiVars ==
    <<messages, input, isLoading, uiPreferLocal, connectionStatus,
      availableAgents, uiPending, uiClock, uiMailboxHealth, uiStatusHealth,
      sends>>

enrichVars == <<clearinghouseState, userFills, stateHealth, fillsHealth, enrich>>

detectVars == <<bridgeDeposits, detection>>

vars == <<chatVars, mailboxVars, uiVars, enrichVars, detectVars>>

\* What the actions of one component leave unchanged.
notChatVars == <<mailboxVars, uiVars, enrichVars, detectVars>>
notMailboxVars == <<chatVars, uiVars, enrichVars, detectVars>>
notUIVars == <<chatVars, mailboxVars, enrichVars, detectVars>>
notEnrichVars == <<chatVars, mailboxVars, uiVars, detectVars>>
notDetectVars == <<chatVars, mailboxVars, uiVars, enrichVars>>

\* ------------------------------------------------------------ configuration

\* process.env.X || default: the value of the variable, or the literal.
OrDefault(isSet, default) == IF isSet THEN "env" ELSE default

DefaultAgentAddress == "agent1qfe8jqus8ka24sneygllla33uv5qxcc63rq6pxqmpmhk3mcga72mungnmne"

\* defaultConfig of the deployed client library.
defaultConfig ==
    IF deployment = "two-channel"
    THEN [ baseUrl |-> OrDefault(env.ASI_ONE_URL, "https://api.asi1.ai"),
           apiKey |-> IF env.API_KEY THEN "env" ELSE None,
           agentAddress |-> OrDefault(env.WHALE_AGENT_ADDRESS, DefaultAgentAddress),
           localMailboxUrl |-> OrDefault(env.LOCAL_MAILBOX_URL, "http://localhost:8000") ]
    ELSE [ baseUrl |-> OrDefault(env.ASI_ONE_URL, "https://api.asi.one"),
           apiKey |-> IF env.API_KEY THEN "env" ELSE None,
           agentAddress |-> IF env.WHALE_AGENT_ADDRESS THEN "env" ELSE None,
           localMailboxUrl |-> None ]

isASIOneConfigured ==
    IF deployment = "two-channel"
    THEN Truthy(defaultConfig.baseUrl) /\ Truthy(defaultConfig.apiKey)
         /\ Truthy(defaultConfig.agentAddress)
    ELSE Truthy(defaultConfig.baseUrl) /\ Truthy(defaultConfig.agentAddress)

isLocalMailboxConfigured ==
    Truthy(defaultConfig.localMailboxUrl) /\ Truthy(defaultConfig.agentAddress)

\* The base URLs of the two outbound fetches of the two-channel deployment:
\* POST fetches `${...}/send` with its own reading of the environment, and
\* sendMessage fetches `${this.config.baseUrl}/v1/chat/completions`.
LocalMailboxUrl == OrDefault(env.LOCAL_MAILBOX_URL, "http://localhost:8000")
ChatCompletionsUrl == defaultConfig.baseUrl

\* GET of the two-channel deployment: the communication part of the body.
GET ==
    [ localMailbox |->
          [ configured |-> isLocalMailboxConfigured,
            url |-> OrDefault(env.LOCAL_MAILBOX_URL, "http://localhost:8000") ],
      asiOne |->
          [ configured |-> isASIOneConfigured,
            url |-> OrDefault(env.ASI_ONE_URL, "https://api.asi.one") ] ]


\* ------------------------------------------------------- responses of POST

Response(status, success, response, source, error, message) ==
    [ status |-> status, success |-> success, response |-> response,
      source |-> source, error |-> error, message |-> message ]

NoResponse == Response(0, FALSE, None, None, None, None)

\* return NextResponse.json({success: true, response, timestamp, source})
Ok200(text, source) == Response(200, TRUE, text, source, None, None)

\* return NextResponse.json({error, message}, {status})
Fail(status, error, message) == Response(status, FALSE, None, None, error, message)

BadRequest400 == Fail(400, "Message is required and must be a string", None)

\* The outer catch: the body's message is the exception's own message.
InternalError500(detail) == Fail(500, "Internal server error", detail)

\* error.message of what the handler throws on a body it cannot read.
ExceptionMessage(b) ==
    IF b.message = JsonNull
    THEN "Cannot destructure property 'message' of null"
    ELSE "Unexpected token in JSON"

\* --------------------------------------------------------------- requests

IdleRequest ==
    [ pc |-> "Idle", body |-> NoBody, attempts |-> <<>>, settled |-> 0,
      sm |-> None, response |-> NoResponse, responses |-> 0 ]

\* Mutant of Return: the handler answers but stays where it was.
ReturnAndContinue(rq, resp) ==
    [rq EXCEPT !.response = resp, !.responses = rq.responses + 1]

\* The handler returns `resp`: the request is answered.
Return(rq, resp) ==
    [rq EXCEPT !.pc = "Done", !.sm = None, !.response = resp,
               !.responses = rq.responses + 1]

\* An outbound fetch to `channel` leaves the process; the handler awaits it.
Fetch(rq, site, smPos, channel) ==
    [rq EXCEPT !.pc = site, !.sm = smPos,
               !.attempts = Append(rq.attempts, channel)]

\* The fetch the handler awaits has settled (resolved or rejected).
Settle(rq) == [rq EXCEPT !.settled = rq.settled + 1]

\* Mutant of InvalidMessage: the typeof test is forgotten.
InvalidMessageFalsyOnly(m) == ~Truthy(m[2])

\* !message || typeof message !== 'string'
InvalidMessage(m) == ~Truthy(m[2]) \/ m[1] # "string"

\* Mutant of PreferLocal: the flag is ignored and local is always preferred.
PreferLocalIgnored(b) == TRUE

\* Mutant of PreferLocal: the default of the destructuring is false.
PreferLocalDefaultFalse(b) == b.preferLocal = "true"

\* const { message, preferLocal = true } = await request.json()
PreferLocal(b) ==
    IF b.preferLocal = "absent" THEN TRUE ELSE b.preferLocal = "true"

\* ---------------------------------------------- ASIOneClient.sendMessage

ASIOneResponse(success, message, error, source) ==
    [success |-> success, message |-> message, error |-> error, source |-> source]

\* The catch of sendMessage: {success: false, error: error.message}
SendMessageFailure(error) == ASIOneResponse(FALSE, None, error, None)

\* targetAgent = agentAddress || this.config.agentAddress
TargetAgent(agentAddress) ==
    IF Truthy(agentAddress) THEN agentAddress ELSE defaultConfig.agentAddress

\* Which fetch sendMessage issues first: "none" when it throws before any.
SendMessageFirstFetch(agentAddress, preferLocal) ==
    IF ~Truthy(TargetAgent(agentAddress)) THEN None
    ELSE IF preferLocal /\ Truthy(defaultConfig.localMailboxUrl)
         THEN "local-mailbox"
         ELSE "asi-one"

\* Mutant of AssistantMessage: the placeholder text is forgotten.
AssistantMessageNoPlaceholder(h) ==
    CASE h = "ok" -> AsiContent
      [] h = "message_only" -> AsiMessage
      [] OTHER -> ""

\* data.choices?.[0]?.message?.content || data.message || 'No response received'
AssistantMessage(h) ==
    CASE h = "ok" -> AsiContent
      [] h = "message_only" -> AsiMessage
      [] OTHER -> NoResponseReceived

\* What sendMessage resolves to once the completions fetch has settled as h.
SendMessageAsiResult(h) ==
    CASE h = "network_error" -> SendMessageFailure("fetch failed")
      [] h = "http_error" -> SendMessageFailure("ASI:ONE API error: 500")
      [] h = "invalid_json" -> SendMessageFailure("Unexpected token")
      [] OTHER ->
           ASIOneResponse(TRUE, AssistantMessage(h), None,
                          IF deployment = "two-channel" THEN "asi-one" ELSE None)

\* sendToLocalMailbox: throws on a rejected fetch, a non-OK status or a body
\* that is not JSON; otherwise success with response || message || placeholder.
SendToLocalMailboxThrows(h) == h \in {"network_error", "http_error"}

SendToLocalMailboxResult(h) ==
    ASIOneResponse(TRUE, IF h = "ok" THEN LocalText ELSE "Response received",
                   None, "local-mailbox")

\* sendMessage has not been called directly.
NoCall ==
    [ pc |-> "Idle", agentAddress |-> None, preferLocal |-> FALSE,
      attempts |-> <<>>, result |-> ASIOneResponse(FALSE, None, None, None) ]


\* ----------------------------------------------------------- POST /chat

\* The places where POST awaits a channel.
AwaitLocalMailbox == "AwaitLocalMailbox"    \* two-channel: fetch(.../send)
AwaitFallbackASI == "AwaitFallbackASI"      \* two-channel: sendMessage in the catch
AwaitDirectASI == "AwaitDirectASI"          \* two-channel: sendMessage, no local try
AwaitASI == "AwaitASI"                      \* remote-only: sendMessage

SendMessageSites == {AwaitFallbackASI, AwaitDirectASI, AwaitASI}

\* The 503 body POST returns when sendMessage, awaited at `site`, did not
\* produce a usable reply.
SendMessageFailed503(site) ==
    IF site = AwaitFallbackASI
    THEN Fail(503, "All agent communication methods failed",
              "Unable to connect to any whale agent.")
    ELSE Fail(503, "Agent communication failed",
              "Unable to connect to the Hyperliquid Whale Watcher agent.")

\* if (asiResponse.success && asiResponse.message) ... else throw
UsableAsiResponse(res) == res.success /\ Truthy(res.message)

\* POST resumes after `await asiOneClient.sendMessage(message)` at `site`.
AfterSendMessage(rq, site, res) ==
    IF UsableAsiResponse(res)
    THEN Return(rq, Ok200(res.message, "asi-one"))
    ELSE Return(rq, SendMessageFailed503(site))

\* Mutant of CallSendMessage: the route hands its preference to sendMessage,
\* which then tries the local mailbox itself.
CallSendMessagePreferLocal(rq, site) ==
    LET first == SendMessageFirstFetch(None, TRUE) IN
    IF first = None
    THEN AfterSendMessage(rq, site, SendMessageFailure("Agent address is required"))
    ELSE Fetch(rq, site, first, first)

\* asiOneClient.sendMessage(message): agentAddress undefined, preferLocal false.
\* Runs sendMessage up to its first fetch (or to its failure before any).
CallSendMessage(rq, site) ==
    LET first == SendMessageFirstFetch(None, FALSE) IN
    IF first = None
    THEN AfterSendMessage(rq, site, SendMessageFailure("Agent address is required"))
    ELSE Fetch(rq, site, first, first)

\* localResponse.ok, then data.success && data.response
LocalAccepted(h) == h = "ok"

\* Mutant of AfterLocalMailbox: a failed local attempt is terminal.
AfterLocalMailboxNoFallback(rq, h) ==
    IF LocalAccepted(h)
    THEN Return(rq, Ok200(LocalText, "local-mailbox"))
    ELSE Return(rq, Fail(503, "No agent communication available", None))

\* Mutant of AfterLocalMailbox: the local reply is stored but the handler
\* goes on to ASI:ONE all the same.
AfterLocalMailboxFallsThrough(rq, h) ==
    IF isASIOneConfigured
    THEN CallSendMessage(rq, AwaitFallbackASI)
    ELSE IF LocalAccepted(h)
         THEN Return(rq, Ok200(LocalText, "local-mailbox"))
         ELSE Return(rq, Fail(503, "No agent communication available", None))

\* Mutant of AfterLocalMailbox: the fallback does not look at the configuration.
AfterLocalMailboxNoConfigCheck(rq, h) ==
    IF LocalAccepted(h)
    THEN Return(rq, Ok200(LocalText, "local-mailbox"))
    ELSE CallSendMessage(rq, AwaitFallbackASI)

\* POST resumes after the local mailbox fetch has settled as h.
AfterLocalMailbox(rq, h) ==
    IF LocalAccepted(h)
    THEN Return(rq, Ok200(LocalText, "local-mailbox"))
    ELSE IF isASIOneConfigured
         THEN CallSendMessage(rq, AwaitFallbackASI)
         ELSE Return(rq, Fail(503, "No agent communication available",
                              "Neither local mailbox nor ASI:ONE is properly configured."))

\* Mutant of PostTwoChannel: a module-level flag marks the local mailbox busy
\* while some request awaits it, and a busy mailbox is skipped.
PostTwoChannelSharedBusy(rq, b) ==
    IF ~b.json
    THEN Return(rq, InternalError500(ExceptionMessage(b)))
    ELSE IF InvalidMessage(b.message)
    THEN Return(rq, BadRequest400)
    ELSE IF /\ PreferLocal(b) /\ isLocalMailboxConfigured
            /\ \A q \in Requests : req[q].pc # AwaitLocalMailbox
    THEN Fetch(rq, AwaitLocalMailbox, None, "local-mailbox")
    ELSE IF isASIOneConfigured
    THEN CallSendMessage(rq, AwaitDirectASI)
    ELSE Return(rq, Fail(503, "No agent configured",
                         "Neither local mailbox nor ASI:ONE client is configured."))

\* The two-channel handler from its entry to its first await or its return.
PostTwoChannel(rq, b) ==
    IF ~b.json
    THEN Return(rq, InternalError500(ExceptionMessage(b)))
    ELSE IF InvalidMessage(b.message)
    THEN Return(rq, BadRequest400)
    ELSE IF PreferLocal(b) /\ isLocalMailboxConfigured
    THEN Fetch(rq, AwaitLocalMailbox, None, "local-mailbox")
    ELSE IF isASIOneConfigured
    THEN CallSendMessage(rq, AwaitDirectASI)
    ELSE Return(rq, Fail(503, "No agent configured",
                         "Neither local mailbox nor ASI:ONE client is configured."))

\* The remote-only handler from its entry to its first await or its return.
PostRemoteOnly(rq, b) ==
    IF ~b.json
    THEN Return(rq, InternalError500(ExceptionMessage(b)))
    ELSE IF InvalidMessage(b.message)
    THEN Return(rq, BadRequest400)
    ELSE IF isASIOneConfigured
    THEN CallSendMessage(rq, AwaitASI)
    ELSE Return(rq, Fail(503, "Agent not configured",
                         "ASI:ONE client is not configured."))

\* sendMessage resumes after the fetch it awaits has settled.
AfterSendMessageFetch(rq) ==
    IF rq.sm = "local-mailbox"
    THEN IF SendToLocalMailboxThrows(localHealth)
         THEN Fetch(rq, rq.pc, "asi-one", "asi-one")
         ELSE AfterSendMessage(rq, rq.pc, SendToLocalMailboxResult(localHealth))
    ELSE AfterSendMessage(rq, rq.pc, SendMessageAsiResult(asiHealth))


\* ----------------------------------------------------------- /api/mailbox

\* this.messages.slice(-100)
MailboxCapacity == 100

\* Message texts are sequences of words separated by single spaces.
WordLength(w) ==
    CASE w \in {"status", "ALERTS"} -> 6
      [] w = "help" -> 4
      [] w = "whale" -> 5
      [] w = "0x742d" -> 6
      [] w = "hi" -> 2
      [] OTHER -> 2

\* String.prototype.toLowerCase, word by word.
ToLowerCase(w) == IF w = "ALERTS" THEN "alerts" ELSE w

RECURSIVE TextLength(_)
TextLength(words) ==
    IF words = <<>> THEN 0
    ELSE IF Len(words) = 1 THEN WordLength(words[1])
    ELSE WordLength(words[1]) + 1 + TextLength(Tail(words))

\* lowerMessage.includes(keyword): no word of the vocabulary holds a keyword
\* as a proper substring, and no keyword holds a space.
Includes(words, keyword) ==
    \E i \in 1..Len(words) : ToLowerCase(words[i]) = keyword

\* A body field is <<typeof, words>>.
FieldAbsent == <<"undefined", <<>>>>
FieldTruthy(f) == f[1] # "undefined" /\ f[2] # <<>>

MailboxBody(j, to, m) == [json |-> j, to |-> to, message |-> m]

MailboxBodies ==
    { MailboxBody(FALSE, None, FieldAbsent),
      MailboxBody(TRUE, None, <<"string", <<"status">>>>),
      MailboxBody(TRUE, "agent", FieldAbsent),
      MailboxBody(TRUE, "agent", <<"number", <<"42">>>>),
      MailboxBody(TRUE, "agent", <<"string", <<"status">>>>),
      MailboxBody(TRUE, "agent", <<"string", <<"ALERTS", "status">>>>),
      MailboxBody(TRUE, "agent", <<"string", <<"help">>>>),
      MailboxBody(TRUE, "agent", <<"string", <<"whale", "0x742d">>>>),
      MailboxBody(TRUE, "agent", <<"string", <<"whale", "hi">>>>) }

\* Mutant of SimulatedResponse: 'alerts' is looked for before 'status'.
SimulatedResponseAlertsFirst(words, now) ==
    IF Includes(words, "alerts") THEN <<"alerts", <<>>>>
    ELSE IF Includes(words, "status") THEN <<"status", <<now>>>>
    ELSE IF Includes(words, "help") THEN <<"help", <<>>>>
    ELSE IF Includes(words, "whale") /\ TextLength(words) > 10
    THEN <<"whale-analysis", <<>>>>
    ELSE <<"default", words>>

\* The simulated agent's reply: <<intent, what the template interpolates>>.
\* The status report interpolates new Date().toLocaleString(), the default
\* reply interpolates the message.
SimulatedResponse(words, now) ==
    IF Includes(words, "status") THEN <<"status", <<now>>>>
    ELSE IF Includes(words, "alerts") THEN <<"alerts", <<>>>>
    ELSE IF Includes(words, "help") THEN <<"help", <<>>>>
    ELSE IF Includes(words, "whale") /\ TextLength(words) > 10
    THEN <<"whale-analysis", <<>>>>
    ELSE <<"default", words>>

Message(id, to, content, now) ==
    [ id |-> id, to |-> to, from |-> "frontend", content |-> content,
      timestamp |-> now, type |-> "query" ]

\* Mutant of addMessage: the clean-up keeps the first MailboxCapacity
\* messages, slice(0, 100).
addMessageKeepsOldest(mb, message) ==
    LET pushed == Append(mb.messages, message)
        n == Len(pushed) IN
    [mb EXCEPT !.messages = IF n > MailboxCapacity
                            THEN SubSeq(pushed, 1, MailboxCapacity)
                            ELSE pushed]

\* LocalMailbox.addMessage: push, then keep the last MailboxCapacity.
addMessage(mb, message) ==
    LET pushed == Append(mb.messages, message)
        n == Len(pushed) IN
    [mb EXCEPT !.messages = IF n > MailboxCapacity
                            THEN SubSeq(pushed, n - MailboxCapacity + 1, n)
                            ELSE pushed]

\* LocalMailbox.setResponse: this.responses.set(messageId, response)
setResponse(mb, messageId, response) ==
    [mb EXCEPT !.responses =
        {e \in mb.responses : e.id # messageId}
            \cup {[id |-> messageId, response |-> response]}]

MailboxReply(status, success, messageId, response, error, message) ==
    [ status |-> status, success |-> success, messageId |-> messageId,
      response |-> response, error |-> error, message |-> message ]

\* What one POST does to the mailbox and what it answers.  The id of a
\* message (Date.now() followed by nine random characters) is taken fresh.
MailboxPost(mb, ids, b, now) ==
    IF ~b.json
    THEN [ mailbox |-> mb, ids |-> ids,
           reply |-> MailboxReply(500, FALSE, 0, <<>>, "Internal server error",
                                  "Unexpected token in JSON") ]
    ELSE IF ~Truthy(b.to) \/ ~FieldTruthy(b.message)
    THEN [ mailbox |-> mb, ids |-> ids,
           reply |-> MailboxReply(400, FALSE, 0, <<>>,
                                  "Missing required fields: to, message", None) ]
    ELSE LET id == ids + 1
             stored == addMessage(mb, Message(id, b.to, b.message, now)) IN
         IF b.message[1] # "string"
         THEN [ mailbox |-> stored, ids |-> id,
                reply |-> MailboxReply(500, FALSE, 0, <<>>, "Internal server error",
                                       "message.toLowerCase is not a function") ]
         ELSE LET response == SimulatedResponse(b.message[2], now) IN
              [ mailbox |-> setResponse(stored, id, response), ids |-> id,
                reply |-> MailboxReply(200, TRUE, id, response, None, None) ]

EmptyMailbox == [messages |-> <<>>, responses |-> {}]

\* The mailbox after n POSTs of "help" at time 0.
MailboxAfter(n) ==
    [ messages |-> [i \in 1..n |-> Message(i, "agent", <<"string", <<"help">>>>, 0)],
      responses |-> {[id |-> i, response |-> <<"help", <<>>>>] : i \in 1..n} ]

\* Nothing has been sent to /api/mailbox.
MailboxIdle ==
    /\ mailbox = EmptyMailbox
    /\ mailboxIds = 0
    /\ mailboxClock = 0
    /\ mailboxLog = <<>>

\* Nothing has been sent to /api/whale.
ChatIdle ==
    /\ deployment = "two-channel"
    /\ env = [ASI_ONE_URL |-> FALSE, API_KEY |-> FALSE,
              WHALE_AGENT_ADDRESS |-> FALSE, LOCAL_MAILBOX_URL |-> FALSE]
    /\ localHealth = "ok"
    /\ asiHealth = "ok"
    /\ req = [r \in Requests |-> IdleRequest]
    /\ sendMessageCall = NoCall

\* ---------------------------------------------------------- ChatInterface

\* What the page gets from fetch('/api/mailbox', {method: 'POST', ...}).
UIMailboxBehaviours == {"ok", "http_error", "network_error", "hang"}

\* What the page gets from fetch('/api/whale').
UIStatusBehaviours == {"ok", "http_error"}

\* What the user can put into the text box.
UIInputs == {"   ", " status "}

\* Mutant of Trim: nothing is trimmed.
TrimKeepsWhitespace(text) == text

\* String.prototype.trim on the texts of the text box.
Trim(text) ==
    CASE text = "   " -> ""
      [] text = " status " -> "status"
      [] OTHER -> text

\* The welcome message has id '1'; Date.now() is far past it.
WelcomeId == 1
UIClockStart == 2

ChatMessage(id, content, isUser, source) ==
    [id |-> id, content |-> content, isUser |-> isUser, source |-> source]

WelcomeMessage == ChatMessage(WelcomeId, <<"Welcome">>, FALSE, None)

\* The entry of the catch block.
ErrorMessage(now, detail) ==
    ChatMessage(now + 1, <<"Sorry, I encountered an error: ", detail>>, FALSE, None)

\* The entry of a successful reply.
BotMessage(now, text, source) == ChatMessage(now + 1, <<text>>, FALSE, source)

UserEntries == {i \in 1..Len(messages) : messages[i].isUser}

HasAsiOneAgent ==
    \E i \in 1..Len(availableAgents) : availableAgents[i] = "asi-one"

\* What the send in progress saw when it started and what it contacted.
SendRecord(tried, outcome) ==
    [ preferLocal |-> uiPreferLocal, local |-> connectionStatus.local,
      asiOne |-> connectionStatus.asiOne, agent |-> HasAsiOneAgent,
      tried |-> tried, outcome |-> outcome ]

Finish(outcome) == [sends EXCEPT ![Len(sends)].outcome = outcome]

\* asiOneClient.discoverAgents(): the local agent when its /status answers,
\* then the ASI:ONE agent when an agent address is configured.
DiscoveredAgents ==
    (IF isLocalMailboxConfigured /\ localHealth \in {"ok", "bad_body"}
     THEN <<"local">> ELSE <<>>)
    \o (IF Truthy(defaultConfig.agentAddress) THEN <<"asi-one">> ELSE <<>>)

\* Which call sendMessage awaits first: "none" when it throws before any.
UIFirstChannel ==
    IF uiPreferLocal /\ connectionStatus.local THEN "local-mailbox"
    ELSE IF ~uiPreferLocal /\ connectionStatus.asiOne /\ HasAsiOneAgent
         THEN "asi-one"
         ELSE None

\* The message of the Error thrown before any call.
UIThrownBeforeCall ==
    IF ~uiPreferLocal /\ connectionStatus.asiOne
    THEN "ASI:One agent not available"
    ELSE "No communication method available"

\* The first render, with the two calls of the mount effect started.
UIFirstRender ==
    /\ messages = <<WelcomeMessage>>
    /\ input = ""
    /\ isLoading = FALSE
    /\ uiPreferLocal = TRUE
    /\ connectionStatus = [local |-> FALSE, asiOne |-> FALSE, activeAgent |-> None]
    /\ availableAgents = <<>>
    /\ uiPending = {"checkConnectionStatus", "discoverAgents"}
    /\ uiClock = UIClockStart
    /\ sends = <<>>

\* No page is open.
UIIdle ==
    /\ UIFirstRender
    /\ uiMailboxHealth = "ok"
    /\ uiStatusHealth = "ok"

\* ------------------------------------------------------- HyperliquidClient

\* JavaScript numbers: an integer value or NaN.
Num(n) == [nan |-> FALSE, v |-> n]
NaN == [nan |-> TRUE, v |-> 0]

Add(a, b) == IF a.nan \/ b.nan THEN NaN ELSE Num(a.v + b.v)
Mul(a, b) == IF a.nan \/ b.nan THEN NaN ELSE Num(a.v * b.v)
Abs(a) == IF a.nan THEN NaN ELSE Num(IF a.v < 0 THEN 0 - a.v ELSE a.v)

\* a > 0 and a !== 0 (both false and true, respectively, for NaN)
Positive(a) == ~a.nan /\ a.v > 0
NotZero(a) == a.nan \/ a.v # 0

\* parseFloat on the numerals of the data source.
parseFloat(text) ==
    CASE text = "-2" -> Num(0 - 2)
      [] text = "0" -> Num(0)
      [] text = "3" -> Num(3)
      [] text = "5" -> Num(5)
      [] OTHER -> NaN

\* value || '0'
OrZero(text) == IF Truthy(text) THEN text ELSE "0"

\* An entry of clearinghouseState.assetPositions: null, an entry without
\* position, or an entry with one.
NullEntry == [null |-> TRUE, position |-> FALSE, coin |-> None, szi |-> None, entryPx |-> None]
NoPosition == [null |-> FALSE, position |-> FALSE, coin |-> None, szi |-> None, entryPx |-> None]
AssetPosition(coin, szi, entryPx) ==
    [null |-> FALSE, position |-> TRUE, coin |-> coin, szi |-> szi, entryPx |-> entryPx]

AssetPositions ==
    { NullEntry, NoPosition,
      AssetPosition("ETH", "3", "5"),
      AssetPosition("BTC", "3", None),
      AssetPosition("SOL", "-2", "5"),
      AssetPosition("ETH", "0", "5"),
      AssetPosition("BTC", "abc", "5") }

\* An entry of userFills.
Fill(coin, px, sz, time) == [coin |-> coin, px |-> px, sz |-> sz, time |-> time]

UserFills ==
    { Fill("ETH", "5", "3", 1),
      Fill("BTC", "5", "-2", 0),
      Fill("SOL", None, "3", 1) }

\* userFills.slice(0, 10)
FillsKept == 10

SeqsUpTo(S, n) == UNION {[1..k -> S] : k \in 0..n}

\* Mutant of ParsePositionsFrom: the size is not compared with 0.
RECURSIVE ParsePositionsFromKeepsZero(_, _, _)
ParsePositionsFromKeepsZero(assetPositions, i, positions) ==
    IF i > Len(assetPositions) THEN positions
    ELSE LET position == assetPositions[i] IN
         IF position.null THEN positions
         ELSE IF position.position
         THEN LET szi == parseFloat(position.szi)
                  entryPx == parseFloat(OrZero(position.entryPx)) IN
              ParsePositionsFromKeepsZero(assetPositions, i + 1,
                  Append(positions,
                         [ coin |-> position.coin,
                           side |-> IF Positive(szi) THEN "long" ELSE "short",
                           notionalUsd |-> Abs(Mul(szi, entryPx)),
                           avgEntry |-> entryPx ]))
         ELSE ParsePositionsFromKeepsZero(assetPositions, i + 1, positions)

\* The loop of parsePositions over assetPositions from entry i on: a null
\* entry throws, and the catch keeps what was pushed before it.
RECURSIVE ParsePositionsFrom(_, _, _)
ParsePositionsFrom(assetPositions, i, positions) ==
    IF i > Len(assetPositions) THEN positions
    ELSE LET position == assetPositions[i] IN
         IF position.null THEN positions
         ELSE IF position.position /\ NotZero(parseFloat(position.szi))
         THEN LET szi == parseFloat(position.szi)
                  entryPx == parseFloat(OrZero(position.entryPx)) IN
              ParsePositionsFrom(assetPositions, i + 1,
                  Append(positions,
                         [ coin |-> position.coin,
                           side |-> IF Positive(szi) THEN "long" ELSE "short",
                           notionalUsd |-> Abs(Mul(szi, entryPx)),
                           avgEntry |-> entryPx ]))
         ELSE ParsePositionsFrom(assetPositions, i + 1, positions)

parsePositions(assetPositions) == ParsePositionsFrom(assetPositions, 1, <<>>)

\* The loop of parseFills over the first FillsKept entries.
RECURSIVE ParseFillsFrom(_, _, _, _)
ParseFillsFrom(rawFills, i, fills, now) ==
    IF i > Len(rawFills) \/ i > FillsKept THEN fills
    ELSE LET fill == rawFills[i] IN
         IF Truthy(fill.coin) /\ Truthy(fill.px) /\ Truthy(fill.sz)
         THEN LET size == parseFloat(fill.sz)
                  price == parseFloat(fill.px) IN
              ParseFillsFrom(rawFills, i + 1,
                  Append(fills,
                         [ coin |-> fill.coin,
                           action |-> IF Positive(size) THEN "buy" ELSE "sell",
                           notionalUsd |-> Abs(Mul(size, price)),
                           price |-> price,
                           timestamp |-> IF fill.time # 0 THEN fill.time ELSE now ]),
                  now)
         ELSE ParseFillsFrom(rawFills, i + 1, fills, now)

parseFills(rawFills, now) == ParseFillsFrom(rawFills, 1, <<>>, now)

\* Mutant of TotalNotionalUsd: the first position is left out of the sum.
RECURSIVE TotalNotionalUsdSkipsFirst(_, _, _)
TotalNotionalUsdSkipsFirst(positions, i, sum) ==
    IF i > Len(positions) THEN sum
    ELSE TotalNotionalUsdSkipsFirst(
             positions, i + 1,
             IF i = 1 THEN sum ELSE Add(sum, positions[i].notionalUsd))

\* positions.reduce((sum, pos) => sum + pos.notionalUsd, 0) from entry i on.
RECURSIVE TotalNotionalUsd(_, _, _)
TotalNotionalUsd(positions, i, sum) ==
    IF i > Len(positions) THEN sum
    ELSE TotalNotionalUsd(positions, i + 1, Add(sum, positions[i].notionalUsd))

EnrichedWallet(positions, recentFills, totalNotionalUsd) ==
    [ positions |-> positions, recentFills |-> recentFills,
      totalNotionalUsd |-> totalNotionalUsd ]

\* The wallet of the catch block.
EmptyWallet == EnrichedWallet(<<>>, <<>>, Num(0))

\* What makeRequest does: resolve with the body, or throw.
RequestBehaviours == {"ok", "http_error", "network_error"}

\* Fills that are older than the ones the source lists first: userFills
\* answers with the most recent fill first.
OlderFills(n) ==
    [i \in 1..n |-> Fill(IF i % 2 = 1 THEN "ETH" ELSE "BTC", "5", "3", 1)]

\* No call of enrichWallet has been made: the position of the call, the two
\* requests, the wallet returned, the wallet an earlier call returned (none)
\* and the last value Date.now() gave.
NotCalled ==
    [ pc |-> "Idle", state |-> "none", fills |-> "none", wallet |-> EmptyWallet,
      previous |-> <<>>, clock |-> 1, summary |-> <<>> ]

\* formatWalletSummary(enrichedWallet): what the text interpolates.  Without
\* positions the text names the wallet only; otherwise it gives the total,
\* positions[0] as the top position and recentFills[0], if any.
formatWalletSummary(enrichedWallet) ==
    IF Len(enrichedWallet.positions) = 0
    THEN [ totalNotionalUsd |-> <<>>, topPosition |-> <<>>, recentActivity |-> <<>> ]
    ELSE [ totalNotionalUsd |-> <<enrichedWallet.totalNotionalUsd>>,
           topPosition |-> <<enrichedWallet.positions[1]>>,
           recentActivity |-> IF Len(enrichedWallet.recentFills) > 0
                              THEN <<enrichedWallet.recentFills[1]>>
                              ELSE <<>> ]

\* enrichWallet has not been called.
EnrichIdle ==
    /\ clearinghouseState = <<>>
    /\ userFills = <<>>
    /\ stateHealth = "ok"
    /\ fillsHealth = "ok"
    /\ enrich = NotCalled

\* ------------------------------------------------------- whale detection

\* Whale detection thresholds.
ALERT_THRESHOLD_USD == 10000000
LOOKBACK_MINUTES_DEFAULT == 15

\* Mutant of TOKEN_INFO: every token is converted 1:1, as USDC is.
TOKEN_INFO_OneToOne ==
    [ USDC |-> [decimals |-> 6, usdRate |-> 1],
      USDT |-> [decimals |-> 6, usdRate |-> 1],
      ETH |-> [decimals |-> 18, usdRate |-> 1] ]

\* Token decimals and the static USD rate of each token.
TOKEN_INFO ==
    [ USDC |-> [decimals |-> 6, usdRate |-> 1],
      USDT |-> [decimals |-> 6, usdRate |-> 1],
      ETH |-> [decimals |-> 18, usdRate |-> 2500] ]

\* A decoded deposit at the bridge contract: the token, the amount in whole
\* tokens and how many minutes ago it was made.
Deposits ==
    { [token |-> "USDC", amount |-> 12000000, age |-> 1],
      [token |-> "USDC", amount |-> 9999999, age |-> 1],
      [token |-> "USDT", amount |-> 10000000, age |-> 20],
      [token |-> "ETH", amount |-> 4000, age |-> 1],
      [token |-> "ETH", amount |-> 4800, age |-> 1],
      [token |-> "ETH", amount |-> 1, age |-> 20] }

\* The blockchain-data capability: the deposits made within the lookback
\* window, in the order of the chain.
queryDeposits(deposits, lookbackMinutes) ==
    SelectSeq(deposits, LAMBDA d : d.age <= lookbackMinutes)

\* The events of a list in descending order of amountUsd; events of equal
\* amountUsd keep the order of the list.
RECURSIVE SortDescending(_)
SortDescending(events) ==
    IF events = <<>> THEN <<>>
    ELSE LET top == CHOOSE i \in 1..Len(events) :
                        /\ \A j \in 1..Len(events) :
                              events[j].amountUsd <= events[i].amountUsd
                        /\ \A j \in 1..(i - 1) :
                              events[j].amountUsd < events[i].amountUsd
             rest == [j \in 1..(Len(events) - 1) |->
                         IF j < top THEN events[j] ELSE events[j + 1]] IN
         <<events[top]>> \o SortDescending(rest)

\* detect(thresholdUsd, lookbackMinutes) on what the capability returned:
\* convert with the rate table, keep amountUsd >= thresholdUsd, sort.
detect(thresholdUsd, lookbackMinutes, deposits) ==
    LET found == queryDeposits(deposits, lookbackMinutes)
        events == [i \in 1..Len(found) |->
                      [ token |-> found[i].token, amount |-> found[i].amount,
                        age |-> found[i].age,
                        amountUsd |-> found[i].amount
                                          * TOKEN_INFO[found[i].token].usdRate ]] IN
    SortDescending(SelectSeq(events, LAMBDA e : e.amountUsd >= thresholdUsd))

\* detect has not been called.
DetectIdle ==
    /\ bridgeDeposits = <<>>
    /\ detection = [ pc |-> "Idle", thresholdUsd |-> ALERT_THRESHOLD_USD,
                     lookbackMinutes |-> LOOKBACK_MINUTES_DEFAULT, events |-> <<>> ]

\* ---------------------------------------------------------------- actions

TypeOK ==
    /\ deployment \in Deployments
    /\ env \in [ASI_ONE_URL : BOOLEAN, API_KEY : BOOLEAN,
                WHALE_AGENT_ADDRESS : BOOLEAN, LOCAL_MAILBOX_URL : BOOLEAN]
    /\ localHealth \in LocalBehaviours
    /\ asiHealth \in RemoteBehaviours
    /\ DOMAIN req = Requests
    /\ sendMessageCall.pc \in {"Idle", "Awaiting", "Done"}
    /\ Len(mailbox.messages) <= MailboxCapacity
    /\ mailboxIds \in Nat
    /\ mailboxClock \in 0..MaxMailboxClock
    /\ Len(mailboxLog) <= MaxMailboxPosts
    /\ isLoading \in BOOLEAN
    /\ uiPreferLocal \in BOOLEAN
    /\ input \in UIInputs \cup {""}
    /\ uiClock \in UIClockStart..MaxUIClock
    /\ uiMailboxHealth \in UIMailboxBehaviours
    /\ uiStatusHealth \in UIStatusBehaviours
    /\ Len(sends) <= MaxUISends
    /\ stateHealth \in RequestBehaviours
    /\ fillsHealth \in RequestBehaviours
    /\ enrich.pc \in {"Idle", "Awaiting", "Done"}
    /\ Len(bridgeDeposits) <= MaxDeposits
    /\ detection.pc \in {"Idle", "Querying", "Done"}

Init ==
    /\ deployment \in Deployments
    /\ env \in [ASI_ONE_URL : BOOLEAN, API_KEY : BOOLEAN,
                WHALE_AGENT_ADDRESS : BOOLEAN, LOCAL_MAILBOX_URL : BOOLEAN]
    /\ localHealth \in LocalBehaviours
    /\ asiHealth \in RemoteBehaviours
    /\ req = [r \in Requests |-> IdleRequest]
    /\ sendMessageCall = NoCall
    /\ MailboxIdle
    /\ UIIdle
    /\ EnrichIdle
    /\ DetectIdle

\* Requests are numbered in the order they arrive.
Arrives(r) ==
    /\ req[r].pc = "Idle"
    /\ \A q \in Requests : q < r => req[q].pc # "Idle"

\* A request reaches the two-channel POST handler.
POST(r) ==
    /\ deployment = "two-channel"
    /\ Arrives(r)
    /\ \E b \in Bodies :
          req' = [req EXCEPT ![r] = PostTwoChannel([req[r] EXCEPT !.body = b], b)]
    /\ UNCHANGED <<deployment, env, localHealth, asiHealth, sendMessageCall>>
    /\ UNCHANGED notChatVars

\* A request reaches the remote-only POST handler.
POSTRemoteOnly(r) ==
    /\ deployment = "remote-only"
    /\ Arrives(r)
    /\ \E b \in Bodies :
          req' = [req EXCEPT ![r] = PostRemoteOnly([req[r] EXCEPT !.body = b], b)]
    /\ UNCHANGED <<deployment, env, localHealth, asiHealth, sendMessageCall>>
    /\ UNCHANGED notChatVars

\* The local mailbox fetch of POST settles (never, when the mailbox hangs).
LocalMailboxSettles(r) ==
    /\ req[r].pc = AwaitLocalMailbox
    /\ localHealth # "hang"
    /\ req' = [req EXCEPT ![r] = AfterLocalMailbox(Settle(req[r]), localHealth)]
    /\ UNCHANGED <<deployment, env, localHealth, asiHealth, sendMessageCall>>
    /\ UNCHANGED notChatVars

\* The fetch sendMessage awaits settles (never, when that channel hangs).
SendMessageSettles(r) ==
    /\ req[r].pc \in SendMessageSites
    /\ IF req[r].sm = "local-mailbox" THEN localHealth # "hang" ELSE asiHealth # "hang"
    /\ req' = [req EXCEPT ![r] = AfterSendMessageFetch(Settle(req[r]))]
    /\ UNCHANGED <<deployment, env, localHealth, asiHealth, sendMessageCall>>
    /\ UNCHANGED notChatVars

Next ==
    \E r \in Requests :
        \/ POST(r)
        \/ POSTRemoteOnly(r)
        \/ LocalMailboxSettles(r)
        \/ SendMessageSettles(r)

Spec == Init /\ [][Next]_vars

\* The event loop runs every continuation whose awaited promise has settled.
FairSpec ==
    Spec /\ \A r \in Requests :
                /\ WF_vars(POST(r))
                /\ WF_vars(POSTRemoteOnly(r))
                /\ WF_vars(LocalMailboxSettles(r))
                /\ WF_vars(SendMessageSettles(r))

\* ------------------------------------- actions of a call of sendMessage

\* The client library is deployed in either version, under any environment
\* and any behaviour of the two channels; no request is sent to the route.
SendMessageInit ==
    /\ deployment \in Deployments
    /\ env \in [ASI_ONE_URL : BOOLEAN, API_KEY : BOOLEAN,
                WHALE_AGENT_ADDRESS : BOOLEAN, LOCAL_MAILBOX_URL : BOOLEAN]
    /\ localHealth \in LocalBehaviours
    /\ asiHealth \in RemoteBehaviours
    /\ req = [r \in Requests |-> IdleRequest]
    /\ sendMessageCall = NoCall
    /\ MailboxIdle
    /\ UIIdle
    /\ EnrichIdle
    /\ DetectIdle

\* sendMessage(message, agentAddress, preferLocal) up to its first fetch, or
\* through its catch when no agent address is known.  The remote-only
\* version takes no preferLocal.
SendMessageCalled ==
    /\ sendMessageCall.pc = "Idle"
    /\ \E agentAddress \in {None, DefaultAgentAddress},
          preferLocal \in IF deployment = "two-channel" THEN BOOLEAN ELSE {FALSE} :
          LET first == SendMessageFirstFetch(agentAddress, preferLocal)
              called == [sendMessageCall EXCEPT !.agentAddress = agentAddress,
                                                !.preferLocal = preferLocal] IN
          sendMessageCall' =
              IF first = None
              THEN [called EXCEPT !.pc = "Done",
                                  !.result = SendMessageFailure("Agent address is required")]
              ELSE [called EXCEPT !.pc = "Awaiting", !.attempts = <<first>>]
    /\ UNCHANGED <<deployment, env, localHealth, asiHealth, req>>
    /\ UNCHANGED notChatVars

\* sendMessage resumes after the fetch it awaits has settled (never, when
\* that channel hangs): a local attempt that throws is followed by the
\* completions fetch.
SendMessageResumes ==
    /\ sendMessageCall.pc = "Awaiting"
    /\ LET awaited == sendMessageCall.attempts[Len(sendMessageCall.attempts)] IN
       IF awaited = "local-mailbox"
       THEN /\ localHealth # "hang"
            /\ sendMessageCall' =
                  IF SendToLocalMailboxThrows(localHealth)
                  THEN [sendMessageCall EXCEPT
                           !.attempts = Append(sendMessageCall.attempts, "asi-one")]
                  ELSE [sendMessageCall EXCEPT
                           !.pc = "Done",
                           !.result = SendToLocalMailboxResult(localHealth)]
       ELSE /\ asiHealth # "hang"
            /\ sendMessageCall' =
                  [sendMessageCall EXCEPT !.pc = "Done",
                                          !.result = SendMessageAsiResult(asiHealth)]
    /\ UNCHANGED <<deployment, env, localHealth, asiHealth, req>>
    /\ UNCHANGED notChatVars

SendMessageNext ==
    \/ SendMessageCalled
    \/ SendMessageResumes

SendMessageSpec == SendMessageInit /\ [][SendMessageNext]_vars

\* ---------------------------------------------- actions of /api/mailbox

\* The process has just started, or has already served
\* MailboxCapacity - 1 messages.
MailboxInit ==
    /\ ChatIdle
    /\ UIIdle
    /\ EnrichIdle
    /\ DetectIdle
    /\ \E n \in {0, MailboxCapacity - 1} :
          /\ mailbox = MailboxAfter(n)
          /\ mailboxIds = n
    /\ mailboxClock = 0
    /\ mailboxLog = <<>>

\* POST /api/mailbox: one await (request.json()), then synchronous.
MailboxPOST ==
    /\ Len(mailboxLog) < MaxMailboxPosts
    /\ \E b \in MailboxBodies, now \in mailboxClock..MaxMailboxClock :
          LET out == MailboxPost(mailbox, mailboxIds, b, now) IN
          /\ mailbox' = out.mailbox
          /\ mailboxIds' = out.ids
          /\ mailboxClock' = now
          /\ mailboxLog' = Append(mailboxLog, [body |-> b, at |-> now, reply |-> out.reply])
    /\ UNCHANGED notMailboxVars

MailboxNext == MailboxPOST

MailboxSpec == MailboxInit /\ [][MailboxNext]_vars

\* --------------------------------------------- actions of ChatInterface

\* The page is served by the two-channel version; the snapshot is arbitrary.
UIInit ==
    /\ deployment = "two-channel"
    /\ env \in {e \in [ASI_ONE_URL : BOOLEAN, API_KEY : BOOLEAN,
                        WHALE_AGENT_ADDRESS : BOOLEAN, LOCAL_MAILBOX_URL : BOOLEAN] :
                    ~e.ASI_ONE_URL /\ ~e.WHALE_AGENT_ADDRESS /\ ~e.LOCAL_MAILBOX_URL}
    /\ localHealth \in {"ok", "network_error"}
    /\ asiHealth \in {"ok", "no_content", "http_error", "hang"}
    /\ req = [r \in Requests |-> IdleRequest]
    /\ sendMessageCall = NoCall
    /\ MailboxIdle
    /\ EnrichIdle
    /\ DetectIdle
    /\ UIFirstRender
    /\ uiMailboxHealth \in UIMailboxBehaviours
    /\ uiStatusHealth \in UIStatusBehaviours

\* onChange of the text box (disabled while loading).  Typing takes time:
\* the clock has advanced since the last event.
UIType ==
    /\ ~isLoading
    /\ \E text \in UIInputs : input # text /\ input' = text
    /\ \E now \in (uiClock + 1)..MaxUIClock : uiClock' = now
    /\ UNCHANGED <<messages, isLoading, uiPreferLocal, connectionStatus,
                   availableAgents, uiPending, uiMailboxHealth,
                   uiStatusHealth, sends>>
    /\ UNCHANGED notUIVars

\* onChange of the Prefer Local checkbox.
UISetPreferLocal ==
    /\ uiPreferLocal' = ~uiPreferLocal
    /\ UNCHANGED <<messages, input, isLoading, connectionStatus,
                   availableAgents, uiPending, uiClock, uiMailboxHealth,
                   uiStatusHealth, sends>>
    /\ UNCHANGED notUIVars

\* checkConnectionStatus resumes after fetch('/api/whale').
CheckConnectionStatusSettles ==
    /\ "checkConnectionStatus" \in uiPending
    /\ uiPending' = uiPending \ {"checkConnectionStatus"}
    /\ connectionStatus' =
          IF uiStatusHealth = "ok"
          THEN [ local |-> isLocalMailboxConfigured, asiOne |-> isASIOneConfigured,
                 activeAgent |-> None ]
          ELSE connectionStatus
    /\ UNCHANGED <<messages, input, isLoading, uiPreferLocal, availableAgents,
                   uiClock, uiMailboxHealth, uiStatusHealth, sends>>
    /\ UNCHANGED notUIVars

\* discoverAgents resumes after asiOneClient.discoverAgents().
DiscoverAgentsSettles ==
    /\ "discoverAgents" \in uiPending
    /\ uiPending' = uiPending \ {"discoverAgents"}
    /\ availableAgents' = DiscoveredAgents
    /\ connectionStatus' =
          IF DiscoveredAgents # <<>>
          THEN [connectionStatus EXCEPT !.activeAgent = DiscoveredAgents[1]]
          ELSE connectionStatus
    /\ UNCHANGED <<messages, input, isLoading, uiPreferLocal, uiClock,
                   uiMailboxHealth, uiStatusHealth, sends>>
    /\ UNCHANGED notUIVars

\* sendMessage (button or Enter) up to its first await, or through its catch
\* and finally when it throws before awaiting anything.
UISendMessage ==
    /\ IF Trim(input) = "" \/ isLoading
       THEN UNCHANGED <<messages, input, isLoading, uiPending, uiClock, sends>>
       ELSE /\ Cardinality(UserEntries) < MaxUISends
            /\ input' = ""
            /\ \E now \in uiClock..MaxUIClock :
                  LET userMessage == ChatMessage(now, <<Trim(input)>>, TRUE, None) IN
                  IF UIFirstChannel = None
                  THEN \E later \in now..MaxUIClock :
                          /\ messages' = messages \o <<userMessage,
                                             ErrorMessage(later, UIThrownBeforeCall)>>
                          /\ uiClock' = later
                          /\ isLoading' = FALSE
                          /\ uiPending' = uiPending
                          /\ sends' = Append(sends, SendRecord(<<>>, "error"))
                  ELSE /\ messages' = Append(messages, userMessage)
                       /\ uiClock' = now
                       /\ isLoading' = TRUE
                       /\ uiPending' = uiPending \cup {UIFirstChannel}
                       /\ sends' = Append(sends, SendRecord(<<UIFirstChannel>>, "pending"))
    /\ UNCHANGED <<uiPreferLocal, connectionStatus, availableAgents,
                   uiMailboxHealth, uiStatusHealth>>
    /\ UNCHANGED notUIVars

\* sendMessage resumes after fetch('/api/mailbox') and response.json().
UIMailboxSettles ==
    /\ "local-mailbox" \in uiPending
    /\ uiMailboxHealth # "hang"
    /\ uiPending' = uiPending \ {"local-mailbox"}
    /\ \E now \in uiClock..MaxUIClock :
          /\ uiClock' = now
          /\ IF uiMailboxHealth = "ok"
             THEN /\ messages' = Append(messages, BotMessage(now, LocalText, "local-mailbox"))
                  /\ sends' = Finish("reply")
             ELSE /\ messages' = Append(messages,
                                    ErrorMessage(now,
                                                 IF uiMailboxHealth = "network_error"
                                                 THEN "Failed to fetch"
                                                 ELSE "Failed to get response"))
                  /\ sends' = Finish("error")
    /\ isLoading' = FALSE
    /\ UNCHANGED <<input, uiPreferLocal, connectionStatus, availableAgents,
                   uiMailboxHealth, uiStatusHealth>>
    /\ UNCHANGED notUIVars

\* sendMessage resumes after asiOneClient.sendMessage(input, agent.address).
UIAsiOneSettles ==
    /\ "asi-one" \in uiPending
    /\ asiHealth # "hang"
    /\ uiPending' = uiPending \ {"asi-one"}
    /\ \E now \in uiClock..MaxUIClock :
          LET asiResponse == SendMessageAsiResult(asiHealth) IN
          /\ uiClock' = now
          /\ IF asiResponse.success
             THEN /\ messages' = Append(messages,
                                    BotMessage(now,
                                               IF Truthy(asiResponse.message)
                                               THEN asiResponse.message
                                               ELSE NoResponseReceived,
                                               "asi-one"))
                  /\ sends' = Finish("reply")
             ELSE /\ messages' = Append(messages,
                                    ErrorMessage(now,
                                                 IF Truthy(asiResponse.error)
                                                 THEN asiResponse.error
                                                 ELSE "ASI:One communication failed"))
                  /\ sends' = Finish("error")
    /\ isLoading' = FALSE
    /\ UNCHANGED <<input, uiPreferLocal, connectionStatus, availableAgents,
                   uiMailboxHealth, uiStatusHealth>>
    /\ UNCHANGED notUIVars

UINext ==
    \/ UIType
    \/ UISetPreferLocal
    \/ CheckConnectionStatusSettles
    \/ DiscoverAgentsSettles
    \/ UISendMessage
    \/ UIMailboxSettles
    \/ UIAsiOneSettles

UISpec == UIInit /\ [][UINext]_vars

\* The browser runs every continuation whose awaited promise has settled.
UIFairSpec ==
    UISpec /\ WF_vars(CheckConnectionStatusSettles)
           /\ WF_vars(DiscoverAgentsSettles)
           /\ WF_vars(UIMailboxSettles)
           /\ WF_vars(UIAsiOneSettles)

\* ------------------------------------------ actions of HyperliquidClient

\* The data source holds arbitrary positions and fills of the wallet.
EnrichInit ==
    /\ ChatIdle
    /\ MailboxIdle
    /\ UIIdle
    /\ DetectIdle
    /\ clearinghouseState \in SeqsUpTo(AssetPositions, MaxPositions)
    /\ userFills \in SeqsUpTo(UserFills, MaxFills)
    /\ stateHealth \in RequestBehaviours
    /\ fillsHealth \in RequestBehaviours
    /\ enrich = NotCalled

\* enrichWallet(walletAddress) up to `await Promise.all([...])`.
EnrichWalletCalled ==
    /\ enrich.pc = "Idle"
    /\ enrich' = [enrich EXCEPT !.pc = "Awaiting", !.state = "pending", !.fills = "pending"]
    /\ UNCHANGED <<clearinghouseState, userFills, stateHealth, fillsHealth>>
    /\ UNCHANGED notEnrichVars

\* getClearinghouseState settles.
ClearinghouseStateSettles ==
    /\ enrich.state = "pending"
    /\ enrich' = [enrich EXCEPT !.state = IF stateHealth = "ok" THEN "resolved" ELSE "rejected"]
    /\ UNCHANGED <<clearinghouseState, userFills, stateHealth, fillsHealth>>
    /\ UNCHANGED notEnrichVars

\* getUserFills settles.
UserFillsSettles ==
    /\ enrich.fills = "pending"
    /\ enrich' = [enrich EXCEPT !.fills = IF fillsHealth = "ok" THEN "resolved" ELSE "rejected"]
    /\ UNCHANGED <<clearinghouseState, userFills, stateHealth, fillsHealth>>
    /\ UNCHANGED notEnrichVars

\* Mutant of EnrichWalletResumes: the two requests are joined with
\* Promise.allSettled, and the wallet is built from whichever resolved.
EnrichWalletResumesPartial ==
    /\ enrich.pc = "Awaiting"
    /\ "pending" \notin {enrich.state, enrich.fills}
    /\ \E now \in enrich.clock..MaxEnrichClock :
          LET positions == IF enrich.state = "resolved"
                           THEN parsePositions(clearinghouseState) ELSE <<>>
              recentFills == IF enrich.fills = "resolved"
                             THEN parseFills(userFills, now) ELSE <<>>
              totalNotionalUsd == TotalNotionalUsd(positions, 1, Num(0)) IN
          enrich' = [enrich EXCEPT !.pc = "Done", !.clock = now,
                        !.wallet = EnrichedWallet(positions, recentFills,
                                                  totalNotionalUsd)]
    /\ UNCHANGED <<clearinghouseState, userFills, stateHealth, fillsHealth>>
    /\ UNCHANGED notEnrichVars

\* Mutant of EnrichWalletResumes: the two requests are awaited one after the
\* other, and the wallet is built once getClearinghouseState has resolved.
EnrichWalletResumesAfterFirst ==
    /\ enrich.pc = "Awaiting"
    /\ \/ /\ enrich.state = "resolved"
          /\ \E now \in enrich.clock..MaxEnrichClock :
                LET positions == parsePositions(clearinghouseState)
                    recentFills == IF enrich.fills = "resolved"
                                   THEN parseFills(userFills, now) ELSE <<>>
                    totalNotionalUsd == TotalNotionalUsd(positions, 1, Num(0)) IN
                enrich' = [enrich EXCEPT !.pc = "Done", !.clock = now,
                              !.wallet = EnrichedWallet(positions, recentFills,
                                                        totalNotionalUsd)]
       \/ /\ enrich.state = "rejected"
          /\ enrich' = [enrich EXCEPT !.pc = "Done", !.wallet = EmptyWallet]
    /\ UNCHANGED <<clearinghouseState, userFills, stateHealth, fillsHealth>>
    /\ UNCHANGED notEnrichVars

\* enrichWallet resumes once Promise.all has settled: resolved when both
\* requests resolved, rejected as soon as one of them rejected.
EnrichWalletResumes ==
    /\ enrich.pc = "Awaiting"
    /\ \/ /\ enrich.state = "resolved" /\ enrich.fills = "resolved"
          /\ \E now \in enrich.clock..MaxEnrichClock :
                LET positions == parsePositions(clearinghouseState)
                    recentFills == parseFills(userFills, now)
                    totalNotionalUsd == TotalNotionalUsd(positions, 1, Num(0)) IN
                enrich' = [enrich EXCEPT !.pc = "Done", !.clock = now,
                              !.wallet = EnrichedWallet(positions, recentFills,
                                                        totalNotionalUsd)]
       \/ /\ "rejected" \in {enrich.state, enrich.fills}
          /\ enrich' = [enrich EXCEPT !.pc = "Done", !.wallet = EmptyWallet]
    /\ UNCHANGED <<clearinghouseState, userFills, stateHealth, fillsHealth>>
    /\ UNCHANGED notEnrichVars

EnrichNext ==
    \/ EnrichWalletCalled
    \/ ClearinghouseStateSettles
    \/ UserFillsSettles
    \/ EnrichWalletResumes

EnrichSpec == EnrichInit /\ [][EnrichNext]_vars

\* The data source of repeated calls: as above, and fill lists longer than
\* the FillsKept entries parseFills looks at.
EnrichRepeatInit ==
    /\ ChatIdle
    /\ MailboxIdle
    /\ UIIdle
    /\ DetectIdle
    /\ clearinghouseState \in SeqsUpTo(AssetPositions, MaxPositions)
    /\ userFills \in { recent \o OlderFills(n) :
                          recent \in SeqsUpTo(UserFills, MaxFills),
                          n \in {0, FillsKept} }
    /\ stateHealth \in RequestBehaviours
    /\ fillsHealth \in RequestBehaviours
    /\ enrich = NotCalled

\* enrichWallet(walletAddress) is called again with the same wallet after a
\* call returned; the data source is as it was.
EnrichWalletCalledAgain ==
    /\ enrich.pc = "Done"
    /\ enrich' = [enrich EXCEPT !.pc = "Awaiting", !.state = "pending",
                                !.fills = "pending", !.previous = <<enrich.wallet>>,
                                !.summary = <<>>]
    /\ UNCHANGED <<clearinghouseState, userFills, stateHealth, fillsHealth>>
    /\ UNCHANGED notEnrichVars

\* formatWalletSummary is called with the wallet enrichWallet returned.
FormatWalletSummaryCalled ==
    /\ enrich.pc = "Done"
    /\ enrich.summary = <<>>
    /\ enrich' = [enrich EXCEPT !.summary = <<formatWalletSummary(enrich.wallet)>>]
    /\ UNCHANGED <<clearinghouseState, userFills, stateHealth, fillsHealth>>
    /\ UNCHANGED notEnrichVars

EnrichRepeatNext ==
    \/ EnrichWalletCalled
    \/ ClearinghouseStateSettles
    \/ UserFillsSettles
    \/ EnrichWalletResumes
    \/ EnrichWalletCalledAgain
    \/ FormatWalletSummaryCalled

EnrichRepeatSpec == EnrichRepeatInit /\ [][EnrichRepeatNext]_vars

\* --------------------------------------------- actions of whale detection

\* The bridge contract has received arbitrary deposits.
DetectInit ==
    /\ ChatIdle
    /\ MailboxIdle
    /\ UIIdle
    /\ EnrichIdle
    /\ bridgeDeposits \in SeqsUpTo(Deposits, MaxDeposits)
    /\ detection = [ pc |-> "Idle", thresholdUsd |-> ALERT_THRESHOLD_USD,
                     lookbackMinutes |-> LOOKBACK_MINUTES_DEFAULT, events |-> <<>> ]

\* detect(thresholdUsd, lookbackMinutes) is called and queries the
\* blockchain-data capability.
DetectCalled ==
    /\ detection.pc = "Idle"
    /\ \E thresholdUsd \in {ALERT_THRESHOLD_USD, 2500},
          lookbackMinutes \in {LOOKBACK_MINUTES_DEFAULT, 2 * LOOKBACK_MINUTES_DEFAULT} :
          detection' = [detection EXCEPT !.pc = "Querying",
                                         !.thresholdUsd = thresholdUsd,
                                         !.lookbackMinutes = lookbackMinutes]
    /\ UNCHANGED bridgeDeposits
    /\ UNCHANGED notDetectVars

\* The query settles: with the deposits of the window, or with a failure,
\* which detect degrades to the empty result.
DetectQuerySettles ==
    /\ detection.pc = "Querying"
    /\ \E available \in BOOLEAN :
          detection' = [detection EXCEPT
                           !.pc = "Done",
                           !.events = IF available
                                      THEN detect(detection.thresholdUsd,
                                                  detection.lookbackMinutes,
                                                  bridgeDeposits)
                                      ELSE <<>>]
    /\ UNCHANGED bridgeDeposits
    /\ UNCHANGED notDetectVars

DetectNext ==
    \/ DetectCalled
    \/ DetectQuerySettles

DetectSpec == DetectInit /\ [][DetectNext]_vars


\* ------------------------------------------------------------------ claims

Range(q) == {q[i] : i \in 1..Len(q)}

Done(r) == req[r].pc = "Done"

\* The request carried a usable message: a non-empty string in a JSON body.
ValidRequest(r) ==
    /\ req[r].pc # "Idle"
    /\ req[r].body.json
    /\ req[r].body.message[1] = "string"
    /\ req[r].body.message[2] # ""

\* preferLocal as the caller sent it (absent means true).
AskedLocal(r) == req[r].body.preferLocal \in {"absent", "true"}
AskedRemote(r) == req[r].body.preferLocal = "false"

LocalFailing == localHealth \in {"bad_body", "http_error", "network_error"}

\* C1: with preferLocal true and both channels configured and healthy, the
\* local channel is the first one attempted, the remote channel is not
\* attempted before it, and the reply is the local text tagged local-mailbox.
C1_LocalFirstWhenPreferred ==
    \A r \in Requests :
        ( /\ deployment = "two-channel"
          /\ ValidRequest(r) /\ AskedLocal(r)
          /\ isLocalMailboxConfigured /\ isASIOneConfigured
          /\ localHealth = "ok" /\ asiHealth = "ok" )
        => /\ req[r].attempts # <<>>
           /\ req[r].attempts[1] = "local-mailbox"
           /\ Done(r) => /\ req[r].response.status = 200
                         /\ req[r].response.success
                         /\ req[r].response.response = LocalText
                         /\ req[r].response.source = "local-mailbox"

C1_Witness ==
    \E r \in Requests :
        /\ deployment = "two-channel" /\ ValidRequest(r) /\ AskedLocal(r)
        /\ isASIOneConfigured /\ localHealth = "ok" /\ asiHealth = "ok"
        /\ Done(r) /\ req[r].response.source = "local-mailbox"

\* C2: with preferLocal true, the local channel configured but failing and the
\* remote channel configured and healthy, the request is answered 200 with the
\* remote channel's text, tagged asi-one, after local then remote were tried.
C2_FallbackToRemote ==
    \A r \in Requests :
        ( /\ deployment = "two-channel"
          /\ ValidRequest(r) /\ AskedLocal(r)
          /\ isLocalMailboxConfigured /\ LocalFailing
          /\ isASIOneConfigured /\ asiHealth = "ok"
          /\ Done(r) )
        => /\ req[r].response.status = 200
           /\ req[r].response.success
           /\ req[r].response.response = AsiContent
           /\ req[r].response.source = "asi-one"
           /\ req[r].attempts = <<"local-mailbox", "asi-one">>

C2_Witness ==
    \E r \in Requests :
        /\ deployment = "two-channel" /\ ValidRequest(r) /\ AskedLocal(r)
        /\ LocalFailing /\ isASIOneConfigured /\ asiHealth = "ok"
        /\ Done(r) /\ req[r].response.source = "asi-one"

ConfiguredChannels ==
    (IF isLocalMailboxConfigured THEN {"local-mailbox"} ELSE {})
    \cup (IF isASIOneConfigured THEN {"asi-one"} ELSE {})

\* C3 (as claimed): a 503 is produced only after every configured channel has
\* been attempted, for every preference and configuration.
C3_Claim_503OnlyAfterEveryConfiguredChannel ==
    \A r \in Requests :
        (Done(r) /\ req[r].response.status = 503)
        => ConfiguredChannels \subseteq Range(req[r].attempts)

\* C4: a successful attempt is the last attempt of its resolution; once the
\* local mailbox has returned a usable reply no request goes to ASI:ONE.
C4_NoAttemptAfterSuccess ==
    \A r \in Requests :
        /\ \A i \in 1..Len(req[r].attempts) :
              ( \/ req[r].attempts[i] = "local-mailbox" /\ localHealth = "ok"
                \/ req[r].attempts[i] = "asi-one" /\ asiHealth = "ok" )
              => i = Len(req[r].attempts)
        /\ (Done(r) /\ req[r].response.source = "local-mailbox")
              => "asi-one" \notin Range(req[r].attempts)

C4_Witness ==
    \E r \in Requests :
        /\ Done(r) /\ req[r].response.source = "local-mailbox"
        /\ isASIOneConfigured /\ asiHealth = "ok"
        /\ req[r].attempts = <<"local-mailbox">>

\* C5 (as claimed): every request that reached the handler is eventually
\* answered, also when a channel never replies.
C5_Claim_AlwaysEventuallyResponds ==
    \A r \in Requests : (req[r].pc # "Idle") ~> Done(r)

\* C6 (as claimed): a 200 reply is never built from a malformed channel body:
\* the local text comes from a body with success and response, the remote
\* text from a completion with first-choice content.
C6_Claim_MalformedBodyIsFailure ==
    \A r \in Requests :
        (Done(r) /\ req[r].response.status = 200)
        => /\ req[r].response.source = "local-mailbox" => localHealth = "ok"
           /\ req[r].response.source = "asi-one" => asiHealth = "ok"

\* C7: when preferLocal is false, or the local channel is not configured, the
\* first channel attempted is ASI:ONE if it is configured, and no channel is
\* attempted otherwise: the local mailbox is never first.
C7_RemoteFirstWhenNotPreferred ==
    \A r \in Requests :
        (ValidRequest(r) /\ (AskedRemote(r) \/ ~isLocalMailboxConfigured))
        => IF isASIOneConfigured
           THEN req[r].attempts # <<>> /\ req[r].attempts[1] = "asi-one"
           ELSE req[r].attempts = <<>>

C7_Witness ==
    \E r \in Requests :
        /\ deployment = "two-channel" /\ ValidRequest(r) /\ AskedRemote(r)
        /\ isLocalMailboxConfigured /\ localHealth = "ok"
        /\ Done(r) /\ req[r].attempts = <<"asi-one">>

\* C8: with no channel configured a valid request is answered at once with a
\* 503 failure and no channel is contacted; with preferLocal true, the local
\* mailbox failing and ASI:ONE not configured, the answer is a 503 failure
\* too and ASI:ONE is not contacted.
C8_NoChannelAvailable ==
    \A r \in Requests :
        /\ (ValidRequest(r) /\ ConfiguredChannels = {})
              => /\ Done(r)
                 /\ req[r].attempts = <<>>
                 /\ req[r].response.status = 503
                 /\ ~req[r].response.success
                 /\ req[r].response.response = None
                 /\ req[r].response.error # None
        /\ ( /\ deployment = "two-channel" /\ ValidRequest(r) /\ AskedLocal(r)
             /\ LocalFailing /\ ~isASIOneConfigured
             /\ req[r].pc # AwaitLocalMailbox )
              => /\ Done(r)
                 /\ req[r].attempts = <<"local-mailbox">>
                 /\ req[r].response.status = 503
                 /\ ~req[r].response.success
                 /\ req[r].response.response = None
                 /\ req[r].response.error # None

C8_Witness ==
    \E r \in Requests :
        /\ ValidRequest(r) /\ ConfiguredChannels = {}
        /\ Done(r) /\ req[r].response.status = 503

C8_WitnessLocalFailed ==
    \E r \in Requests :
        /\ deployment = "two-channel" /\ ValidRequest(r) /\ AskedLocal(r)
        /\ LocalFailing /\ ~isASIOneConfigured
        /\ Done(r) /\ req[r].response.status = 503

Stage(rq) ==
    IF rq.pc = "Idle" THEN "Idle"
    ELSE IF rq.pc = "Done"
         THEN IF rq.response.status = 200 THEN "Succeeded"
              ELSE IF rq.response.status = 503 THEN "ExhaustedAllChannels"
              ELSE "Rejected"
         ELSE IF Len(rq.attempts) <= 1 THEN "AttemptingPrimary"
              ELSE "AttemptingFallback"

TerminalStages == {"Succeeded", "ExhaustedAllChannels", "Rejected"}

ForwardSteps ==
    { <<"Idle", "AttemptingPrimary">>, <<"Idle", "ExhaustedAllChannels">>,
      <<"Idle", "Rejected">>,
      <<"AttemptingPrimary", "AttemptingFallback">>,
      <<"AttemptingPrimary", "Succeeded">>,
      <<"AttemptingPrimary", "ExhaustedAllChannels">>,
      <<"AttemptingFallback", "Succeeded">>,
      <<"AttemptingFallback", "ExhaustedAllChannels">> }

\* C10: every step of a request moves its resolution forward; the fallback is
\* entered only from the primary attempt and only when the primary (the local
\* mailbox) has failed; an answered request never changes again; Succeeded and
\* ExhaustedAllChannels exclude each other; a request has been answered
\* exactly once when it is in a terminal state and not at all before.
C10_ForwardOnlyResolution ==
    [][ \A r \in Requests :
          LET s == Stage(req[r])
              t == Stage(req'[r])
          IN /\ s # t => <<s, t>> \in ForwardSteps
             /\ s = t => req'[r] = req[r]
             /\ (t = "AttemptingFallback" /\ s # t)
                   => /\ req[r].attempts = <<"local-mailbox">>
                      /\ LocalFailing
                      /\ req'[r].attempts = <<"local-mailbox", "asi-one">>
             /\ s \in TerminalStages => req'[r] = req[r]
             /\ t = "Succeeded" => req'[r].response.success
             /\ t = "ExhaustedAllChannels" => ~req'[r].response.success
             /\ req'[r].responses = IF t \in TerminalStages THEN 1 ELSE 0
      ]_vars

C10_Witness ==
    \E r \in Requests :
        /\ Stage(req[r]) = "Succeeded"
        /\ req[r].attempts = <<"local-mailbox", "asi-one">>
        /\ req[r].responses = 1
        /\ \E q \in Requests : Stage(req[q]) = "AttemptingFallback"


NoDuplicates(q) == \A i, j \in 1..Len(q) : q[i] = q[j] => i = j

Awaiting(r) == req[r].pc \notin {"Idle", "Done"}

\* C11: the fetches of a request are sequential: at most one is unsettled at
\* any time (exactly one while the handler awaits, none otherwise), a second
\* fetch is sent only after the first, to the local mailbox, has settled as a
\* failure, and no channel is contacted twice for one request.
C11_SequentialAttempts ==
    \A r \in Requests :
        /\ Len(req[r].attempts) - req[r].settled = IF Awaiting(r) THEN 1 ELSE 0
        /\ NoDuplicates(req[r].attempts)
        /\ Len(req[r].attempts) <= 2
        /\ Len(req[r].attempts) = 2
              => /\ req[r].settled >= 1
                 /\ req[r].attempts[1] = "local-mailbox"
                 /\ LocalFailing

C11_Witness ==
    \E r \in Requests :
        /\ req[r].pc = AwaitFallbackASI
        /\ req[r].attempts = <<"local-mailbox", "asi-one">>
        /\ req[r].settled = 1


IsPrefix(a, b) == Len(a) <= Len(b) /\ \A i \in 1..Len(a) : a[i] = b[i]

\* C12: under one configuration and one availability snapshot, two requests
\* with the same preference contact the same channels in the same order and
\* get the same outcome, however their steps interleave: at any moment the
\* channels one has contacted are a prefix of the other's, and once both are
\* answered their attempts and responses are equal.
C12_DeterministicResolution ==
    \A r, q \in Requests :
        ( /\ ValidRequest(r) /\ ValidRequest(q)
          /\ AskedLocal(r) <=> AskedLocal(q) )
        => /\ IsPrefix(req[r].attempts, req[q].attempts)
              \/ IsPrefix(req[q].attempts, req[r].attempts)
           /\ (Done(r) /\ Done(q))
                 => /\ req[r].attempts = req[q].attempts
                    /\ req[r].response = req[q].response

\* The later request overtakes the earlier one, and both end the same way.
C12_Witness ==
    \E r, q \in Requests :
        /\ r < q /\ ValidRequest(r) /\ ValidRequest(q)
        /\ AskedLocal(r) /\ AskedLocal(q)
        /\ req[r].body # req[q].body
        /\ Done(r) /\ Done(q)
        /\ req[r].attempts = <<"local-mailbox", "asi-one">>
        /\ req[q].attempts = req[r].attempts
        /\ req[q].response = req[r].response
        /\ req[r].response.status = 200


Answered500(r) == Done(r) /\ req[r].response.status = 500

\* C16: the body of a 500 response is generic: two requests that both end in
\* an unexpected exception receive identical bodies, whatever the text of
\* the exception was.
C16_Claim_GenericInternalError ==
    \A r, q \in Requests :
        (Answered500(r) /\ Answered500(q)) => req[r].response = req[q].response


\* A channel succeeded when it returned reply text of its own.
ChannelSucceeded(c) ==
    \/ c = "local-mailbox" /\ localHealth = "ok"
    \/ c = "asi-one" /\ asiHealth \in {"ok", "message_only"}

SomeAttemptSucceeded(r) ==
    \E i \in 1..Len(req[r].attempts) : ChannelSucceeded(req[r].attempts[i])

ReadableBody(r) == req[r].body.json

\* C14: an answered request has status 200 with success = true exactly when
\* a channel it attempted succeeded, 503 exactly when its message was valid
\* and no channel it attempted succeeded (none configured, or all failed),
\* 400 exactly when its readable body holds an invalid message, 500 only
\* when the handler threw, and no other status.
C14_Claim_StatusMatchesOutcome ==
    \A r \in Requests :
        Done(r) =>
            LET resp == req[r].response IN
            /\ resp.status \in {200, 400, 500, 503}
            /\ (resp.status = 200 /\ resp.success = TRUE)
                  <=> SomeAttemptSucceeded(r)
            /\ resp.status = 503
                  <=> (ValidRequest(r) /\ ~SomeAttemptSucceeded(r))
            /\ resp.status = 400
                  <=> (ReadableBody(r) /\ ~ValidRequest(r))
            /\ resp.status = 500 => ~ReadableBody(r)


\* The reply text a channel produced (None when it produced none).
ChannelText(c) ==
    IF c = "local-mailbox"
    THEN IF localHealth = "ok" THEN LocalText ELSE None
    ELSE CASE asiHealth = "ok" -> AsiContent
           [] asiHealth = "message_only" -> AsiMessage
           [] OTHER -> None

\* C15: a successful answer carries a non-empty text that is exactly the text
\* produced by the channel that answered (the last one attempted) and a
\* source tag naming that channel; a failure carries neither text nor tag.
C15_Claim_TextAndSourceOfAnsweringChannel ==
    \A r \in Requests :
        Done(r) =>
            LET resp == req[r].response
                n == Len(req[r].attempts) IN
            IF resp.success
            THEN /\ Truthy(resp.response)
                 /\ n >= 1
                 /\ resp.source = req[r].attempts[n]
                 /\ resp.response = ChannelText(resp.source)
            ELSE resp.response = None /\ resp.source = None


\* C13: no request handler writes process-wide state: the module-level
\* mailbox is the same before and after every step of every handler.
C13_Claim_NoHandlerWritesSharedState ==
    [][mailbox' = mailbox]_vars


\* C17: a finished send that saw Prefer Local on and local configured tried
\* local first and, when local failed while the remote channel was configured
\* (and its agent known), tried the remote channel; a finished send that saw
\* local not configured or Prefer Local off tried the remote channel whenever
\* it was configured (and its agent known).
C17_Claim_UIChannelOrdering ==
    \A i \in 1..Len(sends) :
        LET s == sends[i] IN
        s.outcome # "pending" =>
            /\ (s.preferLocal /\ s.local)
                  => /\ s.tried # <<>>
                     /\ s.tried[1] = "local-mailbox"
                     /\ (s.outcome = "error" /\ s.asiOne /\ s.agent)
                           => "asi-one" \in Range(s.tried)
            /\ ((~s.local \/ ~s.preferLocal) /\ s.asiOne /\ s.agent)
                  => "asi-one" \in Range(s.tried)

\* C18: every submitted message is eventually followed by exactly one agent
\* entry (a reply or an error string) with isLoading back to false: once the
\* history holds k user entries it eventually holds the welcome entry and k
\* user/agent pairs, and is not loading.
C18_Claim_EverySendIsAnswered ==
    \A k \in 1..MaxUISends :
        (Cardinality(UserEntries) = k)
            ~> (Len(messages) = 1 + 2 * k /\ ~isLoading)

\* C19: all entries of the history have pairwise distinct ids.
C19_Claim_DistinctMessageIds ==
    \A i, j \in 1..Len(messages) :
        messages[i].id = messages[j].id => i = j

\* The sum of notionalUsd over the positions of a list, by recursion on its
\* tail.
RECURSIVE SumNotionalUsd(_)
SumNotionalUsd(positions) ==
    IF positions = <<>> THEN Num(0)
    ELSE Add(Head(positions).notionalUsd, SumNotionalUsd(Tail(positions)))

\* C20: whatever the data source holds and however the two requests end,
\* the wallet enrichWallet returns has totalNotionalUsd equal to the sum of
\* notionalUsd over the positions it returns, which is 0 when it returns none.
C20_TotalIsSumOfReturnedPositions ==
    enrich.pc = "Done" =>
        /\ enrich.wallet.totalNotionalUsd = SumNotionalUsd(enrich.wallet.positions)
        /\ enrich.wallet.positions = <<>> => enrich.wallet.totalNotionalUsd = Num(0)

\* Both requests resolved and two positions with different non-zero
\* notional values were returned (an entry of the source was left out).
C20_Witness ==
    /\ enrich.pc = "Done"
    /\ enrich.state = "resolved" /\ enrich.fills = "resolved"
    /\ Len(enrich.wallet.positions) = 2
    /\ Len(clearinghouseState) > 2
    /\ enrich.wallet.positions[1].notionalUsd = Num(15)
    /\ enrich.wallet.positions[2].notionalUsd = Num(10)
    /\ enrich.wallet.totalNotionalUsd = Num(25)

\* C21: when the positions request or the fills request fails (either of
\* them, or both, in whatever order they end), enrichWallet returns the
\* wallet with no positions, no fills and totalNotionalUsd 0: nothing the
\* other request fetched is in it.
C21_FailureReturnsEmptyWallet ==
    (enrich.pc = "Done" /\ (stateHealth # "ok" \/ fillsHealth # "ok"))
        => enrich.wallet = EmptyWallet

\* The positions request resolved with positions that parse to a non-empty
\* list, the fills request failed, and the empty wallet was returned.
C21_Witness ==
    /\ enrich.pc = "Done"
    /\ enrich.state = "resolved" /\ enrich.fills = "rejected"
    /\ parsePositions(clearinghouseState) # <<>>
    /\ enrich.wallet = EmptyWallet

\* C22 as stated: enrichWallet has returned only when both requests have
\* ended (resolved or failed).
C22_Claim_ReturnsAfterBothEnded ==
    enrich.pc = "Done" => "pending" \notin {enrich.state, enrich.fills}

\* C22 as amended: both requests are started before enrichWallet waits; a
\* wallet is built from fetched data only after both requests resolved, and
\* when enrichWallet returns with a request failed, whether or not the other
\* has ended, it returns the empty wallet.
C22_BuiltAfterBothResolved ==
    /\ enrich.pc = "Awaiting" => "none" \notin {enrich.state, enrich.fills}
    /\ enrich.pc = "Done" =>
          \/ enrich.state = "resolved" /\ enrich.fills = "resolved"
          \/ /\ "rejected" \in {enrich.state, enrich.fills}
             /\ enrich.wallet = EmptyWallet

\* The positions request failed and enrichWallet returned the empty wallet
\* while the fills request was still pending.
C22_Witness ==
    /\ enrich.pc = "Done"
    /\ enrich.state = "rejected" /\ enrich.fills = "pending"
    /\ enrich.wallet = EmptyWallet

\* C23: a call of enrichWallet that follows another call with the same
\* wallet, the data source being unchanged, returns the very wallet the
\* earlier call returned, the timestamp of every fill included.
C23_Claim_SecondCallReturnsSameWallet ==
    (enrich.pc = "Done" /\ enrich.previous # <<>>)
        => enrich.wallet = enrich.previous[1]

\* The positions of the source (its entries that hold a position) whose
\* signed size is not 0, in the order of the source, each with the side and
\* the notional value the rule gives it; a missing entry price counts as 0.
SourcePositionsWithSize ==
    SelectSeq(clearinghouseState,
              LAMBDA e : e.position /\ parseFloat(e.szi) # Num(0))

PositionByRule(e) ==
    LET size == parseFloat(e.szi)
        entryPrice == parseFloat(IF e.entryPx = None THEN "0" ELSE e.entryPx) IN
    [ coin |-> e.coin,
      side |-> IF ~size.nan /\ size.v > 0 THEN "long" ELSE "short",
      notionalUsd |-> Abs(Mul(size, entryPrice)) ]

WellFormedFills(rawFills) ==
    SelectSeq(rawFills, LAMBDA f : f.coin # None /\ f.px # None /\ f.sz # None)

FillByRule(f) ==
    LET size == parseFloat(f.sz)
        price == parseFloat(f.px) IN
    [ coin |-> f.coin,
      action |-> IF ~size.nan /\ size.v > 0 THEN "buy" ELSE "sell",
      notionalUsd |-> Abs(Mul(size, price)) ]

\* C25: the fills enrichWallet returns after both requests resolved are the
\* most recent well-formed fills of the source (the source lists the most
\* recent first), in the order of the source and at most FillsKept of them:
\* FillsKept when the source holds that many well-formed fills; each has
\* action buy when its size is above 0 and sell otherwise, and
\* notionalUsd = |size * price|.
C25_Claim_MostRecentWellFormedFills ==
    (enrich.pc = "Done" /\ stateHealth = "ok" /\ fillsHealth = "ok") =>
        LET wellFormed == WellFormedFills(userFills)
            kept == IF Len(wellFormed) > FillsKept THEN FillsKept
                    ELSE Len(wellFormed) IN
        /\ Len(enrich.wallet.recentFills) = kept
        /\ \A i \in 1..kept :
              LET returned == enrich.wallet.recentFills[i] IN
              [ coin |-> returned.coin, action |-> returned.action,
                notionalUsd |-> returned.notionalUsd ]
                  = FillByRule(wellFormed[i])

\* The message holds the keyword in some mix of upper and lower case.
HoldsKeyword(words, keyword) ==
    \E i \in 1..Len(words) :
        words[i] = keyword \/ (keyword = "alerts" /\ words[i] = "ALERTS")

\* The first intent, in the order status, alerts, help, wallet analysis,
\* whose condition the message meets; default when it meets none.
IntentByPrecedence(words) ==
    LET order == <<"status", "alerts", "help", "whale-analysis">>
        Meets(intent) ==
            IF intent = "whale-analysis"
            THEN HoldsKeyword(words, "whale") /\ TextLength(words) > 10
            ELSE HoldsKeyword(words, intent)
        met == {k \in 1..Len(order) : Meets(order[k])} IN
    IF met = {} THEN "default"
    ELSE order[CHOOSE k \in met : \A other \in met : k <= other]

\* The requests to /api/mailbox that carry a recipient and a non-empty text.
TextRequests ==
    {i \in 1..Len(mailboxLog) :
        /\ mailboxLog[i].body.json
        /\ mailboxLog[i].body.to # None
        /\ mailboxLog[i].body.message[1] = "string"
        /\ mailboxLog[i].body.message[2] # <<>>}

\* C26: every text message sent to the local channel is answered with the
\* non-empty response of exactly one intent: the first of status, alerts,
\* help and wallet analysis (the text holds 'whale' and is longer than 10
\* characters) whose keyword the text holds in any case, default otherwise.
C26_FirstIntentInPrecedence ==
    \A i \in TextRequests :
        /\ mailboxLog[i].reply.status = 200
        /\ mailboxLog[i].reply.response # <<>>
        /\ mailboxLog[i].reply.response[1]
              = IntentByPrecedence(mailboxLog[i].body.message[2])

\* A message holding both 'ALERTS' and 'status' got the status response, a
\* message holding 'whale' of 8 characters got the default response, and one
\* of 12 characters got the wallet analysis.
C26_Witness ==
    /\ \E i \in TextRequests :
          /\ mailboxLog[i].body.message[2] = <<"ALERTS", "status">>
          /\ mailboxLog[i].reply.response[1] = "status"
    /\ \E i \in TextRequests :
          /\ mailboxLog[i].body.message[2] = <<"whale", "hi">>
          /\ mailboxLog[i].reply.response[1] = "default"
    /\ \E i \in TextRequests :
          /\ mailboxLog[i].body.message[2] = <<"whale", "0x742d">>
          /\ mailboxLog[i].reply.response[1] = "whale-analysis"

\* C27: two requests to the local channel with the same message get the
\* same response text, whenever they are made and whatever the mailbox
\* holds.
C27_Claim_ResponseIsFunctionOfMessage ==
    \A i, j \in TextRequests :
        mailboxLog[i].body.message = mailboxLog[j].body.message
            => mailboxLog[i].reply.response = mailboxLog[j].reply.response

\* C28: in the two-channel deployment, a channel POST has attempted is one
\* GET reports as configured, and the URL GET reports for it is the base
\* URL POST contacted.
C28_Claim_StatusReportsWhatPostUses ==
    deployment = "two-channel" =>
        \A r \in Requests :
            /\ "local-mailbox" \in Range(req[r].attempts) =>
                  /\ GET.localMailbox.configured
                  /\ GET.localMailbox.url = LocalMailboxUrl
            /\ "asi-one" \in Range(req[r].attempts) =>
                  /\ GET.asiOne.configured
                  /\ GET.asiOne.url = ChatCompletionsUrl

\* C29: when the ASI:ONE request of sendMessage has failed (the fetch was
\* rejected, answered with an error status or with a body that is no JSON)
\* and the local channel is up, the request is answered by the local
\* channel, not with a failure.
C29_Claim_FailedAsiFallsBackToLocal ==
    \A r \in Requests :
        ( /\ Done(r)
          /\ "asi-one" \in Range(req[r].attempts)
          /\ asiHealth \in {"network_error", "http_error", "invalid_json"}
          /\ localHealth = "ok" )
            => /\ req[r].attempts[Len(req[r].attempts)] = "local-mailbox"
               /\ req[r].response.status = 200
               /\ req[r].response.source = "local-mailbox"

\* The rate table as the claim reads it: stablecoins at 1, ETH at 2500.
RateByTable(token) == IF token = "ETH" THEN 2500 ELSE 1

\* C30: whatever the threshold and the lookback window, the events detect
\* returns are deposits of the bridge, each with amountUsd the amount
\* converted by the rate table and not below the threshold, and they are in
\* descending order of amountUsd.
C30_AboveThresholdInDescendingOrder ==
    detection.pc = "Done" =>
        /\ \A i \in 1..Len(detection.events) :
              LET e == detection.events[i] IN
              /\ \E k \in 1..Len(bridgeDeposits) :
                    /\ bridgeDeposits[k].token = e.token
                    /\ bridgeDeposits[k].amount = e.amount
                    /\ bridgeDeposits[k].age = e.age
              /\ e.amountUsd = e.amount * RateByTable(e.token)
              /\ e.amountUsd >= detection.thresholdUsd
        /\ \A i, j \in 1..Len(detection.events) :
              i < j => detection.events[i].amountUsd >= detection.events[j].amountUsd

\* With the threshold at 10,000,000 the bridge lists 4000 ETH, 9,999,999
\* USDC and 12,000,000 USDC: the USDC deposit of 12,000,000 is returned
\* first, the ETH deposit (exactly 10,000,000 USD) second, the third is not.
C30_Witness ==
    /\ detection.pc = "Done"
    /\ detection.thresholdUsd = ALERT_THRESHOLD_USD
    /\ bridgeDeposits = << [token |-> "ETH", amount |-> 4000, age |-> 1],
                           [token |-> "USDC", amount |-> 9999999, age |-> 1],
                           [token |-> "USDC", amount |-> 12000000, age |-> 1] >>
    /\ Len(detection.events) = 2
    /\ detection.events[1].token = "USDC"
    /\ detection.events[1].amountUsd = 12000000
    /\ detection.events[2].token = "ETH"
    /\ detection.events[2].amountUsd = 10000000

\* The target agent of the direct call is known: passed, or configured.
CallHasTargetAgent ==
    sendMessageCall.agentAddress # None \/ defaultConfig.agentAddress # None

\* C31: a call of sendMessage of the two-channel client that has a target
\* agent and is asked to prefer local, or finds the local mailbox
\* configured, contacts the local mailbox first; when that attempt succeeds
\* the call returns its reply with source 'local-mailbox', and when it
\* fails ASI:ONE is contacted next.
C31_Claim_LocalFirstWhenPreferredOrConfigured ==
    ( /\ deployment = "two-channel"
      /\ sendMessageCall.pc # "Idle"
      /\ CallHasTargetAgent
      /\ sendMessageCall.preferLocal \/ defaultConfig.localMailboxUrl # None )
        => /\ sendMessageCall.attempts # <<>>
           /\ sendMessageCall.attempts[1] = "local-mailbox"
           /\ sendMessageCall.pc = "Done" =>
                 IF localHealth \in {"ok", "bad_body"}
                 THEN /\ sendMessageCall.attempts = <<"local-mailbox">>
                      /\ sendMessageCall.result.success
                      /\ sendMessageCall.result.source = "local-mailbox"
                 ELSE sendMessageCall.attempts = <<"local-mailbox", "asi-one">>

\* C33: a call of sendMessage that has returned resolved to a response:
\* with success false it carries an error and no message, with success true
\* a non-empty message; a call without target agent contacts no channel and
\* returns a failure.
C33_ResponseShape ==
    sendMessageCall.pc = "Done" =>
        LET result == sendMessageCall.result IN
        /\ ~result.success => result.error \notin {None, ""} /\ result.message = None
        /\ result.success => result.message \notin {None, ""}
        /\ ~CallHasTargetAgent =>
              sendMessageCall.attempts = <<>> /\ ~result.success

\* One call returned a failure without contacting a channel (no agent
\* address), or after the completions fetch failed; another returned the
\* placeholder text for a body without content.
C33_Witness ==
    /\ sendMessageCall.pc = "Done"
    /\ \/ /\ ~CallHasTargetAgent
          /\ sendMessageCall.result.error = "Agent address is required"
       \/ /\ asiHealth = "no_content"
          /\ sendMessageCall.attempts = <<"local-mailbox", "asi-one">>
          /\ sendMessageCall.result.message = NoResponseReceived

\* C32: the top position of a summary is a largest position of the wallet
\* it was formatted from: no position of the wallet has a notionalUsd above
\* that of the top position, in whatever order the source lists them.
C32_Claim_TopPositionIsLargest ==
    (enrich.pc = "Done" /\ enrich.summary # <<>>
     /\ enrich.summary[1].topPosition # <<>>) =>
        LET top == enrich.summary[1].topPosition[1].notionalUsd IN
        \A i \in 1..Len(enrich.wallet.positions) :
            LET other == enrich.wallet.positions[i].notionalUsd IN
            ~(~top.nan /\ ~other.nan /\ other.v > top.v)

\* The requests to /api/mailbox whose message was added to the mailbox:
\* those that carry a recipient and a message.
AddedRequests ==
    {i \in 1..Len(mailboxLog) :
        /\ mailboxLog[i].body.json
        /\ mailboxLog[i].body.to # None
        /\ mailboxLog[i].body.message # FieldAbsent}

\* C34: the mailbox holds at most 100 messages, and they are the most
\* recently added ones in the order they were added: with n messages added
\* since the process started, the messages n - 99 (or 1) to n, the last of
\* them being the message of the last request that added one.
C34_MostRecentMessagesInOrder ==
    LET held == Len(mailbox.messages) IN
    /\ held <= 100
    /\ held = IF mailboxIds > 100 THEN 100 ELSE mailboxIds
    /\ \A k \in 1..held : mailbox.messages[k].id = mailboxIds - held + k
    /\ \A i \in AddedRequests :
          (\A j \in AddedRequests : j <= i)
              => mailbox.messages[held].content = mailboxLog[i].body.message

\* 101 messages were added: the first one is gone, the other 100 are held in
\* the order they were added.
C34_Witness ==
    /\ mailboxIds = 101
    /\ Len(mailbox.messages) = 100
    /\ mailbox.messages[1].id = 2
    /\ mailbox.messages[100].id = 101

\* C35: every stored response is the response of a message the mailbox
\* still holds, and no more than 100 responses are stored.
C35_Claim_ResponsesOfRetainedMessages ==
    /\ \A e \in mailbox.responses :
          \E k \in 1..Len(mailbox.messages) : mailbox.messages[k].id = e.id
    /\ Cardinality(mailbox.responses) <= 100

\* C36: a POST to /api/mailbox that is answered with an error status leaves
\* the messages and the responses of the mailbox as they were.
C36_Claim_ErrorLeavesMailboxUnchanged ==
    [][ ( /\ Len(mailboxLog') = Len(mailboxLog) + 1
          /\ mailboxLog'[Len(mailboxLog')].reply.status # 200 )
            => mailbox' = mailbox ]_vars

\* C37: once the two calls of the mount effect have completed and discovery
\* has returned at least one agent, activeAgent is the first discovered
\* agent and the two flags are those of the status check, whichever of the
\* two calls completed first.
C37_Claim_ActiveAgentAfterBothCompleted ==
    ( /\ "checkConnectionStatus" \notin uiPending
      /\ "discoverAgents" \notin uiPending
      /\ availableAgents # <<>>
      /\ uiStatusHealth = "ok" )
        => /\ connectionStatus.activeAgent = availableAgents[1]
           /\ connectionStatus.local = isLocalMailboxConfigured
           /\ connectionStatus.asiOne = isASIOneConfigured

\* The requests of sendMessage that have not been answered.
SendsInFlight == uiPending \cap {"local-mailbox", "asi-one"}

\* C38: at most one send is in flight, and a step adds a user entry to the
\* history or starts a request only when no send is loading and the text box
\* holds something other than whitespace; it then adds one entry of the
\* trimmed text and at most one request.
C38_OneSendAndNoEmptySend ==
    [][ /\ Cardinality(SendsInFlight') <= 1
        /\ ( \/ Len(sends') # Len(sends)
             \/ \E i \in 1..Len(messages') :
                    i > Len(messages) /\ messages'[i].isUser
             \/ ~(SendsInFlight' \subseteq SendsInFlight) )
           => /\ ~isLoading
              /\ SendsInFlight = {}
              /\ input \notin {"", "   "}
              /\ Len(sends') = Len(sends) + 1
              /\ messages'[Len(messages) + 1].isUser
              /\ messages'[Len(messages) + 1].content \notin {<<"">>, <<"   ">>}
              /\ \A i \in 1..Len(messages') :
                    i > Len(messages) + 1 => ~messages'[i].isUser ]_vars

\* A send is in flight: one request is pending, the page is loading, the
\* text box is empty again and the history holds the one user entry.
C38_Witness ==
    /\ isLoading
    /\ Cardinality(SendsInFlight) = 1
    /\ Len(sends) = 1
    /\ sends[1].outcome = "pending"
    /\ Cardinality(UserEntries) = 1
    /\ input = ""

====
